---- MODULE Spec2Model ----
(***************************************************************************)
(* Near - Incognito bridge vault (bridge/src/lib.rs).                      *)
(*                                                                         *)
(* The contract state is the struct Vault: tx_burn (LookupMap of burn      *)
(* transaction ids already used) and beacons (TreeMap from beacon height   *)
(* to the beacon committee).  Every public method is one action; the host  *)
(* runs calls one at a time and reverts every storage write of a call that *)
(* panics.  The variables call/result/writes/logs record the last call so  *)
(* that properties of a call can be stated over states.                    *)
(*                                                                         *)
(* verify_inst, LEN, NEAR_ADDRESS and the panic messages live in utils.rs  *)
(* and errors.rs, which are not part of the sources at hand; they are      *)
(* modelled from the design document (sections 4.2 - 4.4, 6, 7).           *)
(***************************************************************************)
EXTENDS Integers, Sequences, FiniteSets, TLC

(***************************************************************************)
(* Bounds of the model.                                                    *)
(***************************************************************************)
\* beacon heights used by callers and registries: 0 .. MaxHeight
MaxHeight == 2
\* number of distinct burn transaction ids carried by instructions
NumTx == 2

Heights == 0..MaxHeight

(***************************************************************************)
(* Program constants.                                                      *)
(***************************************************************************)
\* length of an instruction; array_refs! at lib.rs:129 splits [u8; LEN]
\* into 1+1+12+20+12+20+24+8+32 bytes, which fixes LEN
LEN == 130
\* recognised unshield meta types and the accepted shard (lib.rs:135)
META_UNSHIELD == 157
META_UNSHIELD_2 == 158
SHARD_ID == 1

\* panic messages (errors.rs and the host), named after the error kinds of
\* section 7 of the design document
INVALID_METADATA == "InvalidMetadata"
INVALID_TX_BURN == "AlreadyConsumed"
ALREADY_INITIALIZED == "Already initialized"
INVALID_BEACON_LIST == "Invalid beacon list"
NOT_INITIALIZED == "The contract is not initialized"
NO_COMMITTEE_FOUND == "NoCommitteeFound"
MALFORMED_INSTRUCTION == "MalformedInstruction"
INVALID_MERKLE_PROOF == "InvalidMerkleProof"
INVALID_SIGNATURE == "InvalidSignature"
INSUFFICIENT_QUORUM == "InsufficientQuorum"
UNBOUND_ROOT == "InstRootNotInBlkData"
SLICE_OUT_OF_RANGE == "range end index out of range for slice"
NEAR_ADDRESS == "0000000000000000000000000000000000000001"
OK == "ok"

(***************************************************************************)
(* Option<T> is a sequence of length at most one.                          *)
(***************************************************************************)
None == <<>>
Some(x) == <<x>>

Max(S) == CHOOSE x \in S : \A y \in S : y <= x

Range(s) == {s[i] : i \in DOMAIN s}

\* a sequence given as a function, as an explicit sequence
Vec(f) == SubSeq(f, 1, Len(f))

Zeros(n) == Vec([i \in 1..n |-> 0])

(***************************************************************************)
(* hex: a String is a sequence of characters; the characters '0'..'f' are  *)
(* the numbers 0..15 and NOT_HEX stands for any other character.           *)
(***************************************************************************)
NOT_HEX == 16

hex_encode(bytes) ==
    Vec([i \in 1..(2 * Len(bytes)) |->
            IF i % 2 = 1 THEN bytes[(i + 1) \div 2] \div 16
                         ELSE bytes[i \div 2] % 16])

\* hex::decode: Err on an odd length or on a character that is no hex digit
hex_decode(s) ==
    IF Len(s) % 2 = 1 \/ (\E i \in DOMAIN s : s[i] = NOT_HEX)
    THEN None
    ELSE Some(Vec([i \in 1..(Len(s) \div 2) |-> s[2 * i - 1] * 16 + s[2 * i]]))

\* hex::decode(..).unwrap_or_default()
unwrap_or_default_bytes(o) == IF o = None THEN <<>> ELSE o[1]

(***************************************************************************)
(* Instruction Verifier (utils.rs, modelled from sections 4.2 - 4.4).      *)
(* The host's hash is an injective constructor over byte strings: the      *)
(* input between two marks outside the byte range, so that a digest is a   *)
(* sequence of integers and two digests concatenate as byte strings do.    *)
(* A signature is the triple of its signer, the message signed and its     *)
(* recovery value, from which recovery yields the signer only for that     *)
(* message and recovery value.                                             *)
(***************************************************************************)
keccak256(x) == <<256>> \o x \o <<257>>

\* a fold that takes every sibling as the left operand
RECURSIVE merkle_fold_sibling_left(_, _, _, _)
merkle_fold_sibling_left(cur, paths, is_lefts, i) ==
    IF i > Len(paths) THEN cur
    ELSE merkle_fold_sibling_left(keccak256(paths[i] \o cur), paths, is_lefts, i + 1)

\* section 4.2: fold the path from the leaf to the root
RECURSIVE merkle_fold(_, _, _, _)
merkle_fold(cur, paths, is_lefts, i) ==
    IF i > Len(paths) THEN cur
    ELSE merkle_fold(IF is_lefts[i] THEN keccak256(paths[i] \o cur)
                                    ELSE keccak256(cur \o paths[i]),
                     paths, is_lefts, i + 1)

instruction_in_merkle_tree(leaf, root, paths, is_lefts) ==
    /\ Len(paths) = Len(is_lefts)
    /\ merkle_fold(leaf, paths, is_lefts, 1) = root

ecrecover(msg, sig, v) ==
    IF sig.msg = msg /\ sig.v = v THEN sig.signer ELSE "nobody"

\* section 4.3: the consensus policy is "more than two thirds of the committee"
threshold(n) == (2 * n) \div 3 + 1

\* a quorum count in which a repeated index counts every time it occurs
verify_signatures_count_all(msg, indexes, signatures, vs, committee) ==
    IF Len(indexes) # Len(signatures) \/ Len(indexes) # Len(vs)
    THEN INVALID_SIGNATURE
    ELSE IF \E i \in DOMAIN indexes :
                \/ indexes[i] >= Len(committee)
                \/ ecrecover(msg, signatures[i], vs[i]) # committee[indexes[i] + 1]
    THEN INVALID_SIGNATURE
    ELSE IF Len(indexes) < threshold(Len(committee))
    THEN INSUFFICIENT_QUORUM
    ELSE OK

\* section 4.3: every entry must recover to committee[indexes[i]] (indexes are
\* 0-based); then the distinct indexes must reach the threshold
verify_signatures(msg, indexes, signatures, vs, committee) ==
    IF Len(indexes) # Len(signatures) \/ Len(indexes) # Len(vs)
    THEN INVALID_SIGNATURE
    ELSE IF \E i \in DOMAIN indexes :
                \/ indexes[i] >= Len(committee)
                \/ ecrecover(msg, signatures[i], vs[i]) # committee[indexes[i] + 1]
    THEN INVALID_SIGNATURE
    ELSE IF Cardinality(Range(indexes)) < threshold(Len(committee))
    THEN INSUFFICIENT_QUORUM
    ELSE OK

\* section 4.4, steps 1 to 4 on the outcome of the hex decoding; the first
\* failure aborts
verify_decoded(req, committee, decoded) ==
    IF decoded = None \/ Len(unwrap_or_default_bytes(decoded)) # LEN
    THEN MALFORMED_INSTRUCTION
    ELSE IF ~instruction_in_merkle_tree(keccak256(decoded[1]), req.inst_root,
                                        req.inst_paths, req.inst_path_is_lefts)
    THEN INVALID_MERKLE_PROOF
    ELSE LET sigs == verify_signatures(req.blk_data, req.indexes,
                                       req.signatures, req.vs, committee) IN
    IF sigs # OK THEN sigs
    ELSE IF req.blk_data.inst_root # req.inst_root THEN UNBOUND_ROOT
    ELSE OK

verify_inst(req, committee) == verify_decoded(req, committee, hex_decode(req.inst))

(***************************************************************************)
(* Vault: the getters.                                                     *)
(***************************************************************************)
\* TreeMap::lower: the greatest key strictly less than the given key
lower(tree, key) ==
    LET below == {k \in DOMAIN tree : k < key} IN
    IF below = {} THEN None ELSE Some(Max(below))

\* get_beacons: both unwraps panic on None
get_beacons(tree, height) ==
    LET get_height_key == lower(tree, height) IN
    IF get_height_key = None
    THEN [status |-> NO_COMMITTEE_FOUND, ret |-> <<>>]
    ELSE [status |-> OK, ret |-> tree[get_height_key[1]]]

\* LookupMap::get(..).unwrap_or_default()
get_tx_burn_used(map, tx_id) ==
    IF tx_id \in DOMAIN map THEN map[tx_id] ELSE FALSE

(***************************************************************************)
(* Vault: the methods.  self is the record [tx_burn, beacons]; a method    *)
(* returns the storage as the call leaves it, its status (OK or the panic  *)
(* message), its return value and the storage keys it wrote.               *)
(***************************************************************************)
panicked(self, msg) ==
    [status |-> msg, ret |-> FALSE, tx_burn |-> self.tx_burn,
     beacons |-> self.beacons, writes |-> <<>>]

\* new without its first assertion
new_reinit(state_exists, beacon_list, height) ==
    IF ~(Len(beacon_list) = 0)
    THEN [status |-> INVALID_BEACON_LIST, tx_burn |-> <<>>, beacons |-> <<>>]
    ELSE [status |-> OK, tx_burn |-> <<>>, beacons |-> (height :> beacon_list)]

\* new: the two assertions, then the genesis snapshot is inserted
new(state_exists, beacon_list, height) ==
    IF state_exists
    THEN [status |-> ALREADY_INITIALIZED, tx_burn |-> <<>>, beacons |-> <<>>]
    ELSE IF ~(Len(beacon_list) = 0)
    THEN [status |-> INVALID_BEACON_LIST, tx_burn |-> <<>>, beacons |-> <<>>]
    ELSE [status |-> OK, tx_burn |-> <<>>, beacons |-> (height :> beacon_list)]

\* u128 amounts are little-endian sequences of base-100000 digits, so that
\* 1e15 is the digit of weight 100000^3
LIMB == 100000

RECURSIVE limbs_value(_)
limbs_value(limbs) ==
    IF limbs = <<>> THEN 0 ELSE limbs[1] + LIMB * limbs_value(Tail(limbs))

\* the division by 1e10 instead of 1e15
div_1e10(limbs) ==
    IF Len(limbs) <= 2 THEN 0 ELSE limbs_value(SubSeq(limbs, 3, Len(limbs)))

\* attached_deposit().checked_div(1e15 as u128).unwrap_or(0)
div_1e15(limbs) ==
    IF Len(limbs) <= 3 THEN 0 ELSE limbs_value(SubSeq(limbs, 4, Len(limbs)))

\* deposit: logs "<incognito_address> <NEAR_ADDRESS> <amount>"
deposit(incognito_address, attached_deposit) ==
    LET amount == div_1e15(attached_deposit) IN
    [status |-> OK, log |-> <<incognito_address, NEAR_ADDRESS, amount>>]

\* a layout without the 22 trailing bytes of the third padding
array_refs_packed(inst_) ==
    [meta_type       |-> SubSeq(inst_, 1, 1),
     shard_id        |-> SubSeq(inst_, 2, 2),
     token           |-> SubSeq(inst_, 15, 34),
     receiver_key    |-> SubSeq(inst_, 47, 66),
     unshield_amount |-> SubSeq(inst_, 69, 76),
     tx_id           |-> SubSeq(inst_, 77, 108)]

\* array_ref![inst, 0, LEN] and array_refs![inst_, 1, 1, 12, 20, 12, 20, 24, 8, 32]
array_refs(inst_) ==
    [meta_type       |-> SubSeq(inst_, 1, 1),
     shard_id        |-> SubSeq(inst_, 2, 2),
     token           |-> SubSeq(inst_, 15, 34),
     receiver_key    |-> SubSeq(inst_, 47, 66),
     unshield_amount |-> SubSeq(inst_, 91, 98),
     tx_id           |-> SubSeq(inst_, 99, 130)]

\* u8::from_le_bytes
u8_from_le_bytes(b) == b[1]

\* line 132: u64::from_be_bytes, widened to u128 without loss
RECURSIVE u64_from_be_bytes(_)
u64_from_be_bytes(b) ==
    IF b = <<>> THEN 0
    ELSE u64_from_be_bytes(SubSeq(b, 1, Len(b) - 1)) * 256 + b[Len(b)]

\* lines 125-129: None when the slice inst[0..LEN] is out of range
parse_inst(inst_hex) ==
    LET inst == unwrap_or_default_bytes(hex_decode(inst_hex)) IN
    IF Len(inst) < LEN THEN None ELSE Some(array_refs(SubSeq(inst, 1, LEN)))

\* the metadata condition with its two halves joined by "and"
metadata_invalid_and(meta_type, shard_id) ==
    (meta_type # META_UNSHIELD /\ meta_type # META_UNSHIELD_2) /\ shard_id # SHARD_ID

\* line 135: the condition under which withdraw panics with INVALID_METADATA
metadata_invalid(meta_type, shard_id) ==
    (meta_type # META_UNSHIELD /\ meta_type # META_UNSHIELD_2) \/ shard_id # SHARD_ID

\* the burn check left out
tx_burn_used_never(self, tx_id) == FALSE

\* line 140: self.tx_burn.get(&tx_id).unwrap_or_default()
tx_burn_used(self, tx_id) == get_tx_burn_used(self.tx_burn, tx_id)

\* the insertion into a map that forgets what it held
tx_burn_insert_fresh(map, tx_id) == (tx_id :> TRUE)

\* line 143: self.tx_burn.insert(&tx_id, &true)
tx_burn_insert(map, tx_id) ==
    [k \in DOMAIN map \cup {tx_id} |-> IF k = tx_id THEN TRUE ELSE map[k]]

\* the verification against the latest committee, whatever the request's height
withdraw_verify_latest(self, unshield_info) ==
    IF DOMAIN self.beacons = {} THEN NO_COMMITTEE_FOUND
    ELSE verify_inst(unshield_info, self.beacons[Max(DOMAIN self.beacons)])

\* lines 119-122: look the committee up at the request's height and verify
withdraw_verify(self, unshield_info) ==
    LET found == get_beacons(self.beacons, unshield_info.height) IN
    IF found.status # OK THEN found.status
    ELSE verify_inst(unshield_info, found.ret)

\* the burn tx marked before the metadata is validated
withdraw_apply_insert_first(self, unshield_info) ==
    LET parsed == parse_inst(unshield_info.inst) IN
    IF parsed = None THEN panicked(self, SLICE_OUT_OF_RANGE)
    ELSE LET meta_type == u8_from_le_bytes(parsed[1].meta_type)
             shard_id  == u8_from_le_bytes(parsed[1].shard_id)
             tx_id     == parsed[1].tx_id IN
    IF tx_burn_used(self, tx_id) THEN panicked(self, INVALID_TX_BURN)
    ELSE IF metadata_invalid(meta_type, shard_id)
    THEN [panicked(self, INVALID_METADATA) EXCEPT
            !.tx_burn = tx_burn_insert(self.tx_burn, tx_id), !.writes = <<tx_id>>]
    ELSE [status |-> OK, ret |-> TRUE,
          tx_burn |-> tx_burn_insert(self.tx_burn, tx_id),
          beacons |-> self.beacons, writes |-> <<tx_id>>]

\* lines 124-148: parse, validate the metadata, check and mark the burn tx
withdraw_apply(self, unshield_info) ==
    LET parsed == parse_inst(unshield_info.inst) IN
    IF parsed = None THEN panicked(self, SLICE_OUT_OF_RANGE)
    ELSE LET meta_type == u8_from_le_bytes(parsed[1].meta_type)
             shard_id  == u8_from_le_bytes(parsed[1].shard_id)
             tx_id     == parsed[1].tx_id IN
    IF metadata_invalid(meta_type, shard_id) THEN panicked(self, INVALID_METADATA)
    ELSE IF tx_burn_used(self, tx_id) THEN panicked(self, INVALID_TX_BURN)
    ELSE [status |-> OK, ret |-> TRUE,
          tx_burn |-> tx_burn_insert(self.tx_burn, tx_id),
          beacons |-> self.beacons, writes |-> <<tx_id>>]

\* a withdraw that passes every check and returns true without marking the id
withdraw_unmarked(self, unshield_info) ==
    LET verified == withdraw_verify(self, unshield_info)
        out == withdraw_apply(self, unshield_info) IN
    IF verified # OK THEN panicked(self, verified)
    ELSE IF out.status # OK THEN out
    ELSE [out EXCEPT !.tx_burn = self.tx_burn]

withdraw(self, unshield_info) ==
    LET verified == withdraw_verify(self, unshield_info) IN
    IF verified # OK THEN panicked(self, verified)
    ELSE withdraw_apply(self, unshield_info)

\* a swap that marks the transaction id of its instruction
swap_beacon_committee_consume(self, swap_info) ==
    LET found == get_beacons(self.beacons, swap_info.height) IN
    IF found.status # OK THEN panicked(self, found.status)
    ELSE LET verified == verify_inst(swap_info, found.ret) IN
    IF verified # OK THEN panicked(self, verified)
    ELSE [status |-> OK, ret |-> FALSE,
          tx_burn |-> tx_burn_insert(self.tx_burn, parse_inst(swap_info.inst)[1].tx_id),
          beacons |-> self.beacons, writes |-> <<>>]

\* swap_beacon_committee: look up, verify; parsing the instruction is a todo
swap_beacon_committee(self, swap_info) ==
    LET found == get_beacons(self.beacons, swap_info.height) IN
    IF found.status # OK THEN panicked(self, found.status)
    ELSE LET verified == verify_inst(swap_info, found.ret) IN
    IF verified # OK THEN panicked(self, verified)
    ELSE [status |-> OK, ret |-> FALSE, tx_burn |-> self.tx_burn,
          beacons |-> self.beacons, writes |-> <<>>]

(***************************************************************************)
(* The inputs callers send.                                                *)
(***************************************************************************)
CommitteeA == <<"b0", "b1", "b2", "b3">>
CommitteeB == <<"c0">>
Committees == {<<>>, CommitteeA, CommitteeB}

TxId(k) == Vec([i \in 1..32 |-> IF i = 1 THEN 171 ELSE IF i = 32 THEN k ELSE 0])
TxIds == {TxId(k) : k \in 1..NumTx}

Token == Vec([i \in 1..20 |-> 17])
Receiver == Vec([i \in 1..20 |-> 34])
Amount == <<0, 0, 0, 0, 0, 0, 1, 244>>

\* an instruction in the wire layout of section 6
MkInst(meta_type, shard_id, k) ==
    <<meta_type, shard_id>> \o Zeros(12) \o Token \o Zeros(12) \o Receiver
        \o Zeros(24) \o Amount \o TxId(k)

\* instructions that pass the metadata gate, and instructions that do not
GoodInstBytes ==
    {MkInst(META_UNSHIELD, SHARD_ID, k) : k \in 1..NumTx}
        \cup {MkInst(META_UNSHIELD_2, SHARD_ID, 1)}

BadInstBytes == {MkInst(200, SHARD_ID, 1), MkInst(META_UNSHIELD, 2, 1)}

GoodInsts == {hex_encode(b) : b \in GoodInstBytes}

\* the first 108 bytes of an instruction
ShortInst == hex_encode(SubSeq(MkInst(META_UNSHIELD, SHARD_ID, 1), 1, 108))

\* a wrong meta type, a wrong shard, no hex string, too short
BadInsts ==
    {hex_encode(b) : b \in BadInstBytes}
        \cup {<<NOT_HEX, 1>>, hex_encode(<<META_UNSHIELD, SHARD_ID>>), ShortInst}

Sibling == keccak256(<<0>>)

\* the root of the one-level tree whose right leaf is the instruction
RootOf(inst) ==
    keccak256(Sibling \o keccak256(unwrap_or_default_bytes(hex_decode(inst))))

BlkData(root) == [header |-> "blk", inst_root |-> root]

Signed(signers, msg) ==
    Vec([i \in DOMAIN signers |-> [signer |-> signers[i], msg |-> msg, v |-> 0]])

\* who signs: a quorum of CommitteeA, one member short of it, CommitteeB
SignerSets == {<<"b0", "b1", "b2">>, <<"b0", "b1">>, <<"c0">>}

MkRequest(inst, height, signers, root, blk_root) ==
    [inst |-> inst, height |-> height,
     inst_paths |-> <<Sibling>>, inst_path_is_lefts |-> <<TRUE>>,
     inst_root |-> root, blk_data |-> BlkData(blk_root),
     indexes |-> Vec([i \in DOMAIN signers |-> i - 1]),
     signatures |-> Signed(signers, BlkData(blk_root)),
     vs |-> Vec([i \in DOMAIN signers |-> 0])]

FirstInst == hex_encode(MkInst(META_UNSHIELD, SHARD_ID, 1))

QuorumA == <<"b0", "b1", "b2">>

\* the request of the design document's scenario: beacon height 100, the
\* instruction under a three-level path, three of the four members signing
ScenarioRoot ==
    keccak256(Sibling \o
              keccak256(keccak256(Sibling \o
                                  keccak256(unwrap_or_default_bytes(
                                      hex_decode(FirstInst))))
                        \o Sibling))

ScenarioRequest ==
    [MkRequest(FirstInst, 100, QuorumA, ScenarioRoot, ScenarioRoot) EXCEPT
        !.inst_paths = <<Sibling, Sibling, Sibling>>,
        !.inst_path_is_lefts = <<TRUE, FALSE, TRUE>>]

Requests ==
    {ScenarioRequest} \cup
    {MkRequest(inst, h, s, RootOf(inst), RootOf(inst)) :
        inst \in GoodInsts, h \in Heights, s \in SignerSets}
    \cup {MkRequest(inst, MaxHeight, QuorumA, RootOf(inst), RootOf(inst)) :
            inst \in BadInsts}
    \cup {\* a root the path does not lead to
          MkRequest(FirstInst, MaxHeight, QuorumA, Sibling, Sibling),
          \* a proven root that the signed block data does not attest
          MkRequest(FirstInst, MaxHeight, QuorumA, RootOf(FirstInst), Sibling)}

SwapRequests == {r \in Requests : r.inst = FirstInst}

Addresses == {"incognito1"}

\* 0, 1e15 - 1, 1e15 and 3e15 + 7 yoctoNEAR
Deposits == {<<0>>, <<99999, 99999, 99999>>, <<0, 0, 0, 1>>, <<7, 0, 0, 3>>}

(***************************************************************************)
(* State.                                                                  *)
(***************************************************************************)
VARIABLES
    state_exists,   \* env::state_exists(): the vault has been initialised
    tx_burn,        \* Vault.tx_burn
    beacons,        \* Vault.beacons
    call,           \* the last call: [op, arg]
    result,         \* its outcome: [status, ret]
    writes,         \* the storage keys it wrote before it returned or panicked
    logs,           \* the lines it logged
    withdrawn,      \* per transaction id, the withdraws that returned true
    pre,            \* the stored vault when the last call began
    genesis_call    \* the arguments of the last new on an account without state

vars == <<state_exists, tx_burn, beacons, call, result, writes, logs, withdrawn, pre,
          genesis_call>>

\* the withdraw counter saturates here
MaxCount == 2

Self == [tx_burn |-> tx_burn, beacons |-> beacons]

Stored == [state_exists |-> state_exists, tx_burn |-> tx_burn, beacons |-> beacons]

NoCall == [op |-> "none", arg |-> <<>>]
NoResult == [status |-> "none", ret |-> FALSE]

Init ==
    /\ state_exists = FALSE
    /\ tx_burn = <<>>
    /\ beacons = <<>>
    /\ call = NoCall
    /\ result = NoResult
    /\ writes = <<>>
    /\ logs = <<>>
    /\ withdrawn = [t \in TxIds |-> 0]
    /\ pre = Stored
    /\ genesis_call = None

\* the transaction id a request's instruction decodes to, if it decodes
DecodedTxId(req) ==
    LET parsed == parse_inst(req.inst) IN
    IF parsed = None THEN None ELSE Some(parsed[1].tx_id)

\* A call of a method on the stored vault: without state the generated
\* wrapper panics (PanicOnDefault); the host keeps the storage writes of a
\* call that returns and drops those of a call that panics.
Method(op, arg, out) ==
    /\ call' = [op |-> op, arg |-> arg]
    /\ pre' = Stored
    /\ UNCHANGED genesis_call
    /\ state_exists' = state_exists
    /\ IF ~state_exists
       THEN /\ result' = [status |-> NOT_INITIALIZED, ret |-> FALSE]
            /\ writes' = <<>>
            /\ logs' = <<>>
            /\ UNCHANGED <<tx_burn, beacons, withdrawn>>
       ELSE /\ result' = [status |-> out.status, ret |-> out.ret]
            /\ writes' = out.writes
            /\ logs' = out.logs
            /\ IF out.status = OK
               THEN tx_burn' = out.tx_burn /\ beacons' = out.beacons
               ELSE UNCHANGED <<tx_burn, beacons>>
            /\ IF op = "withdraw" /\ out.status = OK /\ out.ret = TRUE
               THEN withdrawn' =
                      [withdrawn EXCEPT ![DecodedTxId(arg)[1]] =
                          IF @ < MaxCount THEN @ + 1 ELSE @]
               ELSE UNCHANGED withdrawn

New ==
    \E beacon_list \in Committees, height \in Heights :
        \E out \in {new(state_exists, beacon_list, height)} :
        /\ call' = [op |-> "new", arg |-> [beacons |-> beacon_list, height |-> height]]
        /\ pre' = Stored
        /\ genesis_call' = IF state_exists THEN genesis_call
                           ELSE Some([beacons |-> beacon_list, height |-> height])
        /\ result' = [status |-> out.status, ret |-> FALSE]
        /\ writes' = <<>>
        /\ logs' = <<>>
        /\ IF out.status = OK
           THEN /\ state_exists' = TRUE
                /\ tx_burn' = out.tx_burn
                /\ beacons' = out.beacons
           ELSE UNCHANGED <<state_exists, tx_burn, beacons>>
        /\ UNCHANGED withdrawn

Deposit ==
    \E incognito_address \in Addresses, attached \in Deposits :
        \E out \in {deposit(incognito_address, attached)} :
        Method("deposit", [incognito_address |-> incognito_address, attached |-> attached],
               [status |-> out.status, ret |-> FALSE, tx_burn |-> tx_burn,
                beacons |-> beacons, writes |-> <<>>, logs |-> <<out.log>>])

Withdraw ==
    \E unshield_info \in Requests :
        \E out \in {withdraw(Self, unshield_info)} :
        Method("withdraw", unshield_info,
               [status |-> out.status, ret |-> out.ret, tx_burn |-> out.tx_burn,
                beacons |-> out.beacons, writes |-> out.writes, logs |-> <<>>])

SwapBeaconCommittee ==
    \E swap_info \in SwapRequests :
        \E out \in {swap_beacon_committee(Self, swap_info)} :
        Method("swap_beacon_committee", swap_info,
               [status |-> out.status, ret |-> out.ret, tx_burn |-> out.tx_burn,
                beacons |-> out.beacons, writes |-> out.writes, logs |-> <<>>])

GetBeacons ==
    \E height \in Heights :
        \E out \in {get_beacons(beacons, height)} :
        Method("get_beacons", height,
               [status |-> out.status, ret |-> out.ret, tx_burn |-> tx_burn,
                beacons |-> beacons, writes |-> <<>>, logs |-> <<>>])

GetTxBurnUsed ==
    \E tx_id \in TxIds :
        Method("get_tx_burn_used", tx_id,
               [status |-> OK, ret |-> get_tx_burn_used(tx_burn, tx_id),
                tx_burn |-> tx_burn, beacons |-> beacons, writes |-> <<>>,
                logs |-> <<>>])

Next ==
    \/ New
    \/ Deposit
    \/ Withdraw
    \/ SwapBeaconCommittee
    \/ GetBeacons
    \/ GetTxBurnUsed

Spec == Init /\ [][Next]_vars

(***************************************************************************)
(* The vault as stored state.  Every method but new starts from the Vault  *)
(* that the host decodes from storage.  new stores only an empty committee *)
(* (its second assertion), under which verify_inst accepts no request; the *)
(* behaviour of withdraw and swap_beacon_committee past verify_inst is     *)
(* therefore examined from every stored Vault of the shapes below, a       *)
(* superset of the vaults new can store.                                   *)
(***************************************************************************)
Registries ==
    {(0 :> CommitteeA), (1 :> CommitteeA), (1 :> <<>>),
     (0 :> CommitteeA) @@ (1 :> CommitteeB)}

VaultInit ==
    /\ state_exists = TRUE
    /\ tx_burn = <<>>
    /\ beacons \in Registries
    /\ call = NoCall
    /\ result = NoResult
    /\ writes = <<>>
    /\ logs = <<>>
    /\ withdrawn = [t \in TxIds |-> 0]
    /\ pre = Stored
    /\ genesis_call = None

SpecVault == VaultInit /\ [][Next]_vars

(***************************************************************************)
(* The verifiers as pure functions: the inputs are drawn at the start, a   *)
(* step applies the verifier to them and touches no storage.               *)
(***************************************************************************)
MaxIndexes == 3
MaxPath == 3

\* committees of every size up to four
VerifierCommittees == {SubSeq(CommitteeA, 1, n) : n \in 0..Len(CommitteeA)}

\* index lists with repetitions; Len(CommitteeA) is out of bounds everywhere
IndexLists ==
    UNION {[1..n -> 0..Len(CommitteeA)] : n \in 0..MaxIndexes}

Faults == {"none", "signer", "message", "recovery"}

\* the signature of entry i: by the member at its index, except that entry
\* bad carries the given fault
SignatureAt(msg, indexes, committee, i, bad, fault) ==
    [signer |-> IF i = bad /\ fault = "signer" THEN "mallory"
                ELSE IF indexes[i] < Len(committee) THEN committee[indexes[i] + 1]
                ELSE "outsider",
     msg |-> IF i = bad /\ fault = "message" THEN BlkData(Sibling \o Sibling)
             ELSE msg,
     v |-> IF i = bad /\ fault = "recovery" THEN 1 ELSE 0]

\* a signature bundle: entry bad, if any, carries the fault
SignatureCall(committee, indexes, fault, bad) ==
    [msg |-> BlkData(Sibling),
     indexes |-> Vec(indexes),
     signatures |-> Vec([i \in DOMAIN indexes |->
         SignatureAt(BlkData(Sibling), indexes, committee, i, bad, fault)]),
     vs |-> Vec([i \in DOMAIN indexes |-> 0]),
     committee |-> committee]

MerkleLeaves == {keccak256(<<0>>), keccak256(<<2>>)}
MerkleSiblings == {keccak256(<<0>>), keccak256(<<1>>)}
MerklePaths(n) == [1..n -> MerkleSiblings]

\* the prover's side: the root reached from leaf L by hashing up the path P: the sibling is
\* prepended when its flag is left and appended otherwise
RECURSIVE HashUp(_, _, _)
HashUp(L, P, flags) ==
    IF P = <<>> THEN L
    ELSE HashUp(IF Head(flags) THEN keccak256(Head(P) \o L)
                               ELSE keccak256(L \o Head(P)),
                Tail(P), Tail(flags))

\* a proof: a path and its flags, a leaf and the root claimed
MerkleCall(leaf, root, paths, is_lefts) ==
    [leaf |-> leaf, root |-> root, paths |-> Vec(paths), is_lefts |-> Vec(is_lefts)]

\* the verifiers' inputs: every committee size, index list and fault; every
\* path and flag list up to MaxPath, claiming the root of a path of the same
\* length or a leaf
VerifierInit ==
    /\ state_exists = FALSE
    /\ tx_burn = <<>>
    /\ beacons = <<>>
    /\ \/ \E committee \in VerifierCommittees, indexes \in IndexLists,
             fault \in Faults :
          \E bad \in IF fault = "none" THEN {0} ELSE DOMAIN indexes :
             call = [op |-> "verify_signatures",
                     arg |-> SignatureCall(committee, indexes, fault, bad)]
       \/ \E n \in 0..MaxPath, leaf \in MerkleLeaves :
          \E paths \in MerklePaths(n), is_lefts \in [1..n -> BOOLEAN] :
          \E root \in {HashUp(leaf, q, is_lefts) : q \in MerklePaths(n)}
                      \cup MerkleLeaves :
             call = [op |-> "instruction_in_merkle_tree",
                     arg |-> MerkleCall(leaf, root, paths, is_lefts)]
    /\ result = NoResult
    /\ writes = <<>>
    /\ logs = <<>>
    /\ withdrawn = [t \in TxIds |-> 0]
    /\ pre = Stored
    /\ genesis_call = None

VerifySignatures ==
    /\ call.op = "verify_signatures"
    /\ result = NoResult
    /\ \E out \in {verify_signatures(call.arg.msg, call.arg.indexes,
                                     call.arg.signatures, call.arg.vs,
                                     call.arg.committee)} :
            result' = [status |-> out, ret |-> out = OK]
    /\ UNCHANGED <<state_exists, tx_burn, beacons, call, writes, logs, withdrawn,
                   pre, genesis_call>>

InstructionInMerkleTree ==
    /\ call.op = "instruction_in_merkle_tree"
    /\ result = NoResult
    /\ \E out \in {instruction_in_merkle_tree(call.arg.leaf, call.arg.root,
                                              call.arg.paths, call.arg.is_lefts)} :
            result' = [status |-> OK, ret |-> out]
    /\ UNCHANGED <<state_exists, tx_burn, beacons, call, writes, logs, withdrawn,
                   pre, genesis_call>>

VerifierNext == VerifySignatures \/ InstructionInMerkleTree

SpecVerifier == VerifierInit /\ [][VerifierNext]_vars

(***************************************************************************)
(* Properties.                                                             *)
(***************************************************************************)
PreSelf == [tx_burn |-> pre.tx_burn, beacons |-> pre.beacons]

\* the last call was op on a vault that existed when the call began
Called(op) == call.op = op /\ pre.state_exists

StorageUnchanged == tx_burn = pre.tx_burn /\ beacons = pre.beacons

\* the fields of a well-formed instruction, read off the wire layout
WireMeta(req) == req.inst[1] * 16 + req.inst[2]
WireShard(req) == req.inst[3] * 16 + req.inst[4]
WellFormed(req) == req.inst \in GoodInsts \cup {hex_encode(b) : b \in BadInstBytes}
WireMetadataOk(req) ==
    WireMeta(req) \in {META_UNSHIELD, META_UNSHIELD_2} /\ WireShard(req) = SHARD_ID

\* the request passes the committee lookup and the Instruction Verifier on vault v
Verifies(v, req) ==
    /\ get_beacons(v.beacons, req.height).status = OK
    /\ verify_inst(req, get_beacons(v.beacons, req.height).ret) = OK

C2_InitializeNonEmpty ==
    (call.op = "new" /\ ~pre.state_exists /\ call.arg.beacons # <<>>)
    => /\ result.status = OK
       /\ state_exists
       /\ beacons = (call.arg.height :> call.arg.beacons)
       /\ DOMAIN tx_burn = {}

\* C3: initialize with an empty committee fails and creates no vault, for
\* every genesis height.
C3_InitializeEmptyFails ==
    (call.op = "new" /\ ~pre.state_exists /\ call.arg.beacons = <<>>)
    => /\ result.status # OK
       /\ ~state_exists

\* the greatest stored height that is at most h
Floor(tree, h) == Max({k \in DOMAIN tree : k <= h})

\* C4: floor lookup.  get_committee(H') returns the snapshot stored at the
\* greatest height H <= H', in particular the snapshot stored at H' itself.
C4_FloorLookup ==
    (Called("get_beacons") /\ (\E k \in DOMAIN beacons : k <= call.arg))
    => /\ result.status = OK
       /\ result.ret = beacons[Floor(beacons, call.arg)]

\* the height a call looks the committee up at
LookupHeight == IF call.op = "get_beacons" THEN call.arg ELSE call.arg.height

\* C5: the committee lookup of get_committee, withdraw and swap_committee
\* fails with NoCommitteeFound exactly for the heights below every stored
\* height, and a failed lookup changes no state.
C5_LookupFailsOnlyBelowGenesis ==
    (\E op \in {"get_beacons", "withdraw", "swap_beacon_committee"} : Called(op))
    => /\ (result.status = NO_COMMITTEE_FOUND)
            <=> (\A k \in DOMAIN pre.beacons : LookupHeight < k)
       /\ (result.status = NO_COMMITTEE_FOUND) => StorageUnchanged

Usable(v, t) ==
    {r \in Requests : /\ DecodedTxId(r) = Some(t)
                      /\ WireMetadataOk(r)
                      /\ Verifies(v, r)}

\* C7: metadata gate.  A withdraw that passes proof and signature
\* verification but whose meta type is neither 157 nor 158, or whose shard is
\* not 1, fails with InvalidMetadata and consumes nothing: every valid
\* request for the same transaction id is still accepted afterwards.
C7_MetadataGate ==
    (/\ Called("withdraw")
     /\ Verifies(PreSelf, call.arg)
     /\ WellFormed(call.arg)
     /\ ~WireMetadataOk(call.arg))
    => /\ result.status = INVALID_METADATA
       /\ StorageUnchanged
       /\ LET t == DecodedTxId(call.arg)[1] IN
          ~get_tx_burn_used(pre.tx_burn, t)
            => /\ ~get_tx_burn_used(tx_burn, t)
               /\ \A r \in Usable(Self, t) : withdraw(Self, r).status = OK

\* a verified request with meta type 200 was refused and its id is still usable
C7_Witness ==
    /\ Called("withdraw")
    /\ result.status = INVALID_METADATA
    /\ WireMeta(call.arg) = 200
    /\ Verifies(PreSelf, call.arg)
    /\ Usable(Self, DecodedTxId(call.arg)[1]) # {}

\* every check of withdraw passes on vault v
AllChecksPass(v, req) ==
    /\ Verifies(v, req)
    /\ WellFormed(req)
    /\ WireMetadataOk(req)
    /\ ~get_tx_burn_used(v.tx_burn, DecodedTxId(req)[1])

\* C8: all-or-nothing.  A withdraw or swap_committee that fails leaves the
\* consumed set and the registry as they were and has written nothing before
\* it failed; a withdraw that succeeds passed every check on the vault it
\* started from and wrote the transaction id, once.
C8_AllOrNothing ==
    /\ ((Called("withdraw") \/ Called("swap_beacon_committee")) /\ result.status # OK)
        => (StorageUnchanged /\ writes = <<>>)
    /\ (Called("withdraw") /\ result.status = OK)
        => /\ AllChecksPass(PreSelf, call.arg)
           /\ writes = <<DecodedTxId(call.arg)[1]>>

\* a withdraw of an unconsumed id failed at the last check before the
\* insertion, on a vault that already holds a consumed id
C8_Witness ==
    /\ Called("withdraw")
    /\ result.status = INVALID_METADATA
    /\ ~get_tx_burn_used(tx_burn, DecodedTxId(call.arg)[1])
    /\ DOMAIN tx_burn # {}
    /\ StorageUnchanged

\* C9: the consumed set only grows.  An id that was consumed when a call
\* began is consumed when it ends, whatever the call; an id whose withdraw
\* has succeeded is reported consumed from then on.
C9_ConsumedMonotone ==
    /\ \A t \in DOMAIN pre.tx_burn :
          get_tx_burn_used(pre.tx_burn, t) => get_tx_burn_used(tx_burn, t)
    /\ \A t \in TxIds : withdrawn[t] >= 1 => get_tx_burn_used(tx_burn, t)
    /\ (Called("get_tx_burn_used") /\ withdrawn[call.arg] >= 1) => result.ret = TRUE

\* after two ids were withdrawn, is_consumed of the first still returns true
C9_Witness ==
    /\ Called("get_tx_burn_used")
    /\ result.ret = TRUE
    /\ \A t \in TxIds : t # call.arg => withdrawn[t] = 1

\* C10: verification gate.  The consumed set changes only in a withdraw whose
\* request the Instruction Verifier accepted for the committee that
\* get_committee reports at the request's height on the vault the call began
\* with; a rejected request is not answered true and consumes nothing.
C10_VerificationGate ==
    /\ tx_burn # pre.tx_burn
        => (Called("withdraw") /\ result.ret = TRUE /\ Verifies(PreSelf, call.arg))
    /\ (Called("withdraw") /\ ~Verifies(PreSelf, call.arg))
        => (result.status # OK /\ tx_burn = pre.tx_burn)

\* a withdraw was accepted on a registry of two committees, for the later one
C10_Witness ==
    /\ Called("withdraw")
    /\ tx_burn # pre.tx_burn
    /\ Cardinality(DOMAIN pre.beacons) = 2
    /\ get_beacons(pre.beacons, call.arg.height).ret = CommitteeB

\* C11: single irreversible initialization.  A vault that existed when a call
\* began exists when it ends; initialize on an existing vault fails and
\* leaves the registry and the consumed set as they were.
C11_InitializeOnce ==
    /\ pre.state_exists => state_exists
    /\ (call.op = "new" /\ pre.state_exists)
        => (result.status = ALREADY_INITIALIZED /\ StorageUnchanged)

\* initialize, with an input it accepts on a fresh account, was refused on a
\* vault stored at another height
C11_Witness ==
    /\ call.op = "new"
    /\ pre.state_exists
    /\ call.arg.beacons = <<>>
    /\ call.arg.height \notin DOMAIN beacons
    /\ result.status = ALREADY_INITIALIZED

\* C12: registry invariant.  The registry of an Active vault is non-empty,
\* every stored committee is non-empty, and every snapshot stored when a
\* call began is stored, with the same members, when it ends.
C12_RegistryInvariant ==
    /\ state_exists
        => /\ DOMAIN beacons # {}
           /\ \A h \in DOMAIN beacons : beacons[h] # <<>>
    /\ pre.state_exists
        => \A h \in DOMAIN pre.beacons :
              h \in DOMAIN beacons /\ beacons[h] = pre.beacons[h]

\* the attached value, padded to the four digits of weight 1, 1e5, 1e10, 1e15
Padded(limbs) == limbs \o Zeros(4 - Len(limbs))

\* a is the attached value integer-divided by 1e15: the attached value is
\* a * 1e15 plus a remainder below 1e15
IsNormalized(a, limbs) == Padded(limbs)[4] = a

\* C13: deposit fails with ZeroOrInvalidAmount, and logs no shield event,
\* whenever the attached value is below 1e15.
C13_DepositZeroFails ==
    (Called("deposit") /\ IsNormalized(0, call.arg.attached))
    => (result.status = "ZeroOrInvalidAmount" /\ logs = <<>>)

\* C14: deposit changes neither the registry nor the consumed set and writes
\* nothing; it logs one shield event, the recipient with the attached value
\* integer-divided by 1e15.
C14_DepositFrame ==
    Called("deposit")
    => /\ StorageUnchanged
       /\ writes = <<>>
       /\ result.status = OK
       /\ Len(logs) = 1
       /\ logs[1][1] = call.arg.incognito_address
       /\ IsNormalized(logs[1][3], call.arg.attached)

\* a deposit of 3e15 + 7 on a vault that holds a consumed id logged 3
C14_Witness ==
    /\ Called("deposit")
    /\ DOMAIN tx_burn # {}
    /\ call.arg.attached = <<7, 0, 0, 3>>
    /\ logs = <<(<<"incognito1", NEAR_ADDRESS, 3>>)>>

\* the vault's history began with initialize(4-member committee, height 0)
Scenario == genesis_call = Some([beacons |-> CommitteeA, height |-> 0])

ScenarioTxId == DecodedTxId(ScenarioRequest)[1]

\* C15: end-to-end scenario.  After initialize with a 4-member committee at
\* height 0, the withdraw at height 100 with a valid 3-level path and 3 of 4
\* signatures returns true; from then on is_consumed of its id returns true
\* and the same withdraw fails with AlreadyConsumed.
C15_Scenario ==
    Scenario
    => /\ (call.op = "withdraw" /\ call.arg = ScenarioRequest
            /\ ~get_tx_burn_used(pre.tx_burn, ScenarioTxId))
          => (result.status = OK /\ result.ret = TRUE
                /\ get_tx_burn_used(tx_burn, ScenarioTxId))
       /\ (call.op = "withdraw" /\ call.arg = ScenarioRequest
            /\ get_tx_burn_used(pre.tx_burn, ScenarioTxId))
          => result.status = INVALID_TX_BURN
       /\ (call.op = "get_tx_burn_used" /\ call.arg = ScenarioTxId
            /\ withdrawn[ScenarioTxId] >= 1)
          => (result.status = OK /\ result.ret = TRUE)

\* the entries of a signature bundle, read off its fields
InBounds(a, i) == a.indexes[i] < Len(a.committee)
CorrectlySigned(a, i) ==
    /\ InBounds(a, i)
    /\ a.signatures[i].signer = a.committee[a.indexes[i] + 1]
    /\ a.signatures[i].msg = a.msg
    /\ a.signatures[i].v = a.vs[i]
AllValid(a) == \A i \in DOMAIN a.indexes : CorrectlySigned(a, i)
Distinct(a) == Cardinality({a.indexes[i] : i \in DOMAIN a.indexes})
\* more than two thirds of n
MoreThanTwoThirds(n) == CHOOSE t \in 0..(n + 1) : 3 * t > 2 * n /\ 3 * (t - 1) <= 2 * n

\* C16: quorum boundary.  For a committee of size N with threshold T (more
\* than two thirds of N), the signature verification succeeds on exactly T
\* distinct in-bounds correctly signed indexes and fails with
\* InsufficientQuorum on T-1; a repeated index counts once; an index out of
\* bounds or a signer other than committee[index] fails with InvalidSignature.
C16_QuorumBoundary ==
    (call.op = "verify_signatures" /\ result # NoResult)
    => LET a == call.arg
           T == MoreThanTwoThirds(Len(a.committee)) IN
       /\ (AllValid(a) /\ Distinct(a) = T) => result.status = OK
       /\ (AllValid(a) /\ Distinct(a) = T - 1) => result.status = INSUFFICIENT_QUORUM
       /\ (AllValid(a) /\ Distinct(a) < T) => result.status = INSUFFICIENT_QUORUM
       /\ ~AllValid(a) => result.status = INVALID_SIGNATURE
       /\ result.ret = (result.status = OK)

\* three entries of a four-member committee, one index repeated: two distinct
\* signers, one short of the threshold of three
C16_Witness ==
    /\ call.op = "verify_signatures"
    /\ Len(call.arg.committee) = 4
    /\ Len(call.arg.indexes) = 3
    /\ AllValid(call.arg)
    /\ Distinct(call.arg) = 2
    /\ result.status = INSUFFICIENT_QUORUM

\* P differs in exactly one sibling from a path that leads from L to R
OneSiblingChanged(L, P, flags, R) ==
    \E p \in DOMAIN P, s \in MerkleSiblings :
        s # P[p] /\ HashUp(L, [P EXCEPT ![p] = s], flags) = R

MerkleCalled ==
    /\ call.op = "instruction_in_merkle_tree"
    /\ result # NoResult
    /\ Len(call.arg.paths) = Len(call.arg.is_lefts)

\* C17: Merkle verifier.  For every leaf hash L and path P with flags built by
\* hashing L up to the root R, verify(L, P, flags, R) is true; with any single
\* sibling of P changed it is false; with an empty path it is true if and
\* only if L equals the claimed root.
C17_MerkleRoundTrip ==
    MerkleCalled
    => LET a == call.arg IN
       /\ HashUp(a.leaf, a.paths, a.is_lefts) = a.root => result.ret = TRUE
       /\ OneSiblingChanged(a.leaf, a.paths, a.is_lefts, a.root) => result.ret = FALSE
       /\ a.paths = <<>> => (result.ret <=> a.leaf = a.root)

\* a three-level path with a right-hand sibling was accepted for its root
C17_Witness ==
    /\ MerkleCalled
    /\ Len(call.arg.paths) = 3
    /\ call.arg.is_lefts = <<TRUE, FALSE, TRUE>>
    /\ HashUp(call.arg.leaf, call.arg.paths, call.arg.is_lefts) = call.arg.root
    /\ result.ret = TRUE

\* the wire, read two hex digits per byte at 0-based byte offsets
IsHex(inst) == Len(inst) % 2 = 0 /\ \A i \in DOMAIN inst : inst[i] # NOT_HEX
WireLen(inst) == Len(inst) \div 2
WireByte(inst, off) == inst[2 * off + 1] * 16 + inst[2 * off + 2]
WireField(inst, off, width) == Vec([i \in 1..width |-> WireByte(inst, off + i - 1)])

\* the fields withdraw decodes are those of the layout, in a buffer of n bytes
DecodesLayout(inst, n) ==
    /\ WireLen(inst) = n
    /\ parse_inst(inst) # None
    /\ LET f == parse_inst(inst)[1]
           amount == u64_from_be_bytes(f.unshield_amount) IN
       /\ u8_from_le_bytes(f.meta_type) = WireByte(inst, 0)
       /\ u8_from_le_bytes(f.shard_id) = WireByte(inst, 1)
       /\ f.token = WireField(inst, 14, 20)
       /\ f.receiver_key = WireField(inst, 46, 20)
       /\ f.tx_id = WireField(inst, 98, 32)
       \* big-endian: the last byte is the least significant
       /\ WireField(inst, 90, 5) = Zeros(5)
            => /\ amount % 256 = WireByte(inst, 97)
               /\ (amount \div 256) % 256 = WireByte(inst, 96)
               /\ amount \div 65536 = WireByte(inst, 95)

\* withdraw decodes buffers of n bytes and no others, by the layout, and
\* consumes the instruction under the 32 bytes at offset 98
WireLayout(n) ==
    (Called("withdraw") /\ IsHex(call.arg.inst))
    => LET inst == call.arg.inst IN
       /\ WireLen(inst) = n => DecodesLayout(inst, n)
       /\ result.status = OK
            => /\ DecodesLayout(inst, n)
               /\ writes = <<WireField(inst, 98, 32)>>
               /\ ~get_tx_burn_used(pre.tx_burn, WireField(inst, 98, 32))
               /\ get_tx_burn_used(tx_burn, WireField(inst, 98, 32))
               /\ \A t \in DOMAIN tx_burn :
                    t # WireField(inst, 98, 32) => t \in DOMAIN pre.tx_burn

\* C18 as stated: instruction wire layout.  withdraw decodes a fixed 108-byte
\* instruction buffer: meta_type at byte 0, shard_id at byte 1, the token in
\* 20 bytes at offset 14, the receiver key in 20 bytes at offset 46, the
\* amount big-endian in 8 bytes at offset 90, the transaction id in 32 bytes
\* at offset 98; instructions differing in the id bytes are consumed under
\* different keys.
C18_WireLayout108 == WireLayout(108)

\* C18, amended: the same layout in a fixed buffer of 130 bytes
\* (1 + 1 + 12 + 20 + 12 + 20 + 24 + 8 + 32), the least that holds 32 bytes at
\* offset 98.
C18_WireLayout == WireLayout(98 + 32)

\* a second instruction, differing from a consumed one in its last id byte
\* only, was consumed under a key of its own
C18_Witness ==
    /\ Called("withdraw")
    /\ result.status = OK
    /\ DecodesLayout(call.arg.inst, LEN)
    /\ DOMAIN pre.tx_burn # {}
    /\ DOMAIN tx_burn = DOMAIN pre.tx_burn \cup {WireField(call.arg.inst, 98, 32)}
    /\ Cardinality(DOMAIN tx_burn) = 2

Consumed(map) == {t \in DOMAIN map : map[t]}

\* C19: cross-operation frame.  withdraw, successful or failed, never changes
\* the registry; swap_committee, successful or failed, never changes the
\* consumed set; get_committee and is_consumed change neither; a successful
\* withdraw for id t changes the consumed status of t and of no other id.
C19_CrossOperationFrame ==
    /\ Called("withdraw") => beacons = pre.beacons
    /\ Called("swap_beacon_committee") => tx_burn = pre.tx_burn
    /\ (Called("get_beacons") \/ Called("get_tx_burn_used"))
        => (StorageUnchanged /\ writes = <<>>)
    /\ (Called("withdraw") /\ result.status = OK)
        => \A t \in DOMAIN tx_burn \cup DOMAIN pre.tx_burn \cup TxIds :
              t # DecodedTxId(call.arg)[1]
              => get_tx_burn_used(tx_burn, t) = get_tx_burn_used(pre.tx_burn, t)

\* a swap was accepted on a vault with a consumed id and left the set alone
C19_Witness ==
    /\ Called("swap_beacon_committee")
    /\ result.status = OK
    /\ Consumed(tx_burn) # {}
    /\ tx_burn = pre.tx_burn

RECURSIVE SumOver(_, _)
SumOver(f, S) ==
    IF S = {} THEN 0
    ELSE LET x == CHOOSE y \in S : TRUE IN f[x] + SumOver(f, S \ {x})

\* C20: counting invariant.  In every reachable state the number of ids marked
\* consumed equals the number of withdraw calls that have returned true; each
\* successful withdraw adds exactly one previously absent id; withdraw never
\* returns false (it returns true or aborts).
C20_CountingInvariant ==
    /\ Cardinality(Consumed(tx_burn)) = SumOver(withdrawn, TxIds)
    /\ (Called("withdraw") /\ result.status = OK)
        => /\ result.ret = TRUE
           /\ \E t \in Consumed(tx_burn) \ Consumed(pre.tx_burn) :
                Consumed(tx_burn) = Consumed(pre.tx_burn) \cup {t}
    /\ (Called("withdraw") /\ result.status # OK)
        => Consumed(tx_burn) = Consumed(pre.tx_burn)

\* every id of the model was consumed, each by one withdraw that returned true
C20_Witness ==
    /\ Called("withdraw")
    /\ result.status = OK /\ result.ret = TRUE
    /\ Consumed(tx_burn) = TxIds
    /\ \A t \in TxIds : withdrawn[t] = 1

====
